---- MODULE Spec2Model ----
(***************************************************************************)
(* Return requests (RMA) and the store-credit ledger of the invoice        *)
(* backend: src/models/RMA.js, src/models/StoreCredit.js and the route     *)
(* handlers of backend/routes/rma.routes.js as found in                    *)
(* src/controllers/invoiceController.js (lines 427-2046).                  *)
(*                                                                         *)
(* A handler runs on Node's single thread and gives up control only at an  *)
(* await on the database.  One action of the model is one such stretch of  *)
(* a handler: the database call that ends the previous await together      *)
(* with the synchronous code that follows it.  Several requests are in     *)
(* flight at once (procs), each between two awaits.                        *)
(*                                                                         *)
(* Mongoose's save() of a loaded document writes only the paths whose      *)
(* value was changed in memory ($set), appends pushed array elements       *)
(* ($push), and checks the document version only when a whole array was    *)
(* replaced; that is what SaveCredit and SaveRma do.                       *)
(*                                                                         *)
(* Amounts are integers (the code has JavaScript numbers); one tick of     *)
(* `now` is one calendar month, so a number's year+month bucket is the     *)
(* tick at which it was generated.                                         *)
(***************************************************************************)
EXTENDS Integers, Sequences, FiniteSets, TLC

VARIABLES
    now,         \* current time, in months
    credits,     \* the StoreCredit collection, in insertion order
    rmas,        \* the RMA collection: _id -> document
    nextRid,     \* the next _id a new RMA() draws
    procs,       \* the requests in flight
    resp,        \* the response sent by the step just taken (NoResp if none)
    resolvedOk,  \* history: per RMA _id, the resolution types answered with success
    assignLog    \* history: the RMA numbers persisted, in order of insertion

vars == <<now, credits, rmas, nextRid, procs, resp, resolvedOk, assignLog>>

(***************************************************************************)
(* Bounds of the model.                                                    *)
(***************************************************************************)
NumProcs == 2      \* requests in flight at once
MaxTime == 3       \* months the clock runs through
MaxAmount == 2     \* largest amount a caller names
MaxUses == 2       \* usage records appended to one credit
MaxCreates == 3    \* RMA documents constructed over a run
MaxResolves == 2   \* resolutions accepted over a run
MaxEdits == 1      \* replacements of the items of one RMA

Procs == 1..NumProcs
Orgs == {"orgA", "orgB"}
Customers == {"cust1"}
NoDate == 0
NoId == 0

(***************************************************************************)
(* Strings of digits: String(n).padStart(4, '0'), parseInt, and the string *)
(* order that .sort({ number: -1 }) uses.                                  *)
(***************************************************************************)
PadWidth == 4
NaN == -1

RECURSIVE Digits(_)
Digits(n) == IF n < 10 THEN <<n>> ELSE Append(Digits(n \div 10), n % 10)

RECURSIVE PadStart(_, _)
PadStart(s, w) == IF Len(s) >= w THEN s ELSE PadStart(<<0>> \o s, w)

RECURSIVE ParseInt(_)
ParseInt(s) ==
    IF Len(s) = 0 THEN NaN
    ELSE IF Len(s) = 1 THEN s[1]
    ELSE ParseInt(SubSeq(s, 1, Len(s) - 1)) * 10 + s[Len(s)]

RECURSIVE StrLess(_, _)
StrLess(a, b) ==
    IF Len(b) = 0 THEN FALSE
    ELSE IF Len(a) = 0 THEN TRUE
    ELSE IF a[1] # b[1] THEN a[1] < b[1]
    ELSE StrLess(Tail(a), Tail(b))

\* A number string "<prefix>-<YYYYMM>-<digits>"; NoNumber is the absent field.
MkNumber(prefix, bucket, sequence) ==
    [prefix |-> prefix, bucket |-> bucket, digits |-> PadStart(Digits(sequence), PadWidth)]
NoNumber == [prefix |-> "", bucket |-> 0, digits |-> <<>>]
\* A memo number the caller made up, outside the CM-YYYYMM- pattern.
CustomMemo == [prefix |-> "MEMO", bucket |-> 0, digits |-> <<>>]

\* new RegExp(`^${prefix}-${year}${month}-`)
MatchesBucket(number, prefix, bucket) ==
    number.prefix = prefix /\ number.bucket = bucket

\* findOne({organizationId, number: regex}).sort({number: -1}), then
\* parseInt of the last part, + 1; 1 when there is none or it is NaN.
NextSequence(numbers) ==
    IF numbers = {} THEN 1
    ELSE LET last == CHOOSE n \in numbers :
                         \A m \in numbers : m = n \/ StrLess(m.digits, n.digits)
             lastSequence == ParseInt(last.digits)
         IN  IF lastSequence # NaN THEN lastSequence + 1 ELSE 1

RECURSIVE SumSeq(_)
\* s.reduce((sum, x) => sum + x, 0)
SumSeq(s) == IF Len(s) = 0 THEN 0 ELSE s[1] + SumSeq(Tail(s))

Range(s) == {s[i] : i \in DOMAIN s}

(***************************************************************************)
(* Responses and requests in flight.                                       *)
(***************************************************************************)
NoResp == [op |-> "none", code |-> 0]
Resp(op, code, org, id) == [op |-> op, code |-> code]

Idle == [op |-> "idle"]

(***************************************************************************)
(* StoreCredit documents (src/models/StoreCredit.js).                      *)
(***************************************************************************)
CreditStatuses == {"active", "partially_used", "fully_used", "expired", "voided"}

\* virtual isExpired, evaluated at time t
IsExpired(c, t) == c.expirationDate # NoDate /\ t > c.expirationDate

\* isAvailable without the look at the expiration date.
IsAvailableBug(c, t) ==
    /\ c.status \in {"active", "partially_used"}
    /\ c.remainingBalance > 0

\* virtual isAvailable, evaluated at time t
IsAvailable(c, t) ==
    /\ c.status \in {"active", "partially_used"}
    /\ c.remainingBalance > 0
    /\ ~IsExpired(c, t)

\* The two throws at the head of methods.applyCredit.
ApplyCreditThrows(c, amount, t) ==
    amount > c.remainingBalance \/ ~IsAvailable(c, t)

\* applyCredit with the usage record's two amounts taken from the same value.
ApplyCreditDocBug(c, amount) ==
    LET balance == c.remainingBalance - amount
        status == IF balance = 0 THEN "fully_used"
                  ELSE IF balance < c.originalAmount THEN "partially_used"
                  ELSE c.status
    IN  [c EXCEPT !.remainingBalance = balance,
                  !.status = status,
                  !.usageHistory = Append(@, [amountUsed |-> balance,
                                              remainingAfterUse |-> balance])]

\* methods.applyCredit up to its save(): the document as changed in memory.
ApplyCreditDoc(c, amount) ==
    LET balance == c.remainingBalance - amount
        status == IF balance = 0 THEN "fully_used"
                  ELSE IF balance < c.originalAmount THEN "partially_used"
                  ELSE c.status
    IN  [c EXCEPT !.remainingBalance = balance,
                  !.status = status,
                  !.usageHistory = Append(@, [amountUsed |-> amount,
                                              remainingAfterUse |-> balance])]

\* void with the check made against the wrong status.
VoidThrowsBug(c) == c.status = "voided"

\* The throw at the head of methods.void.
VoidThrows(c) == c.status = "fully_used"

\* methods.void up to its save().
VoidDoc(c, userId, reason, t) ==
    [c EXCEPT !.status = "voided",
              !.voidedBy = userId,
              !.voidedAt = t,
              !.voidReason = reason,
              !.remainingBalance = 0]

\* The schema's validators that a save() of a credit can fail.
ValidCredit(c) ==
    /\ c.originalAmount >= 0
    /\ c.remainingBalance >= 0
    /\ c.status \in CreditStatuses

\* A save() that subtracts the change of the balance from the stored balance
\* ($inc) where Mongoose $sets the balance computed in memory.
SaveCreditBug(db, base, doc) ==
    [db EXCEPT
        !.remainingBalance = IF doc.remainingBalance # base.remainingBalance
                             THEN @ - (base.remainingBalance - doc.remainingBalance)
                             ELSE @,
        !.status = IF doc.status # base.status THEN doc.status ELSE @,
        !.voidedBy = IF doc.voidedBy # base.voidedBy THEN doc.voidedBy ELSE @,
        !.voidedAt = IF doc.voidedAt # base.voidedAt THEN doc.voidedAt ELSE @,
        !.voidReason = IF doc.voidReason # base.voidReason THEN doc.voidReason ELSE @,
        !.usageHistory = @ \o SubSeq(doc.usageHistory, Len(base.usageHistory) + 1,
                                     Len(doc.usageHistory))]

\* A save() that $sets the whole usageHistory array as it is in memory where
\* Mongoose $pushes the new records.
SaveCreditOverwrite(db, base, doc) ==
    [db EXCEPT
        !.remainingBalance = IF doc.remainingBalance # base.remainingBalance
                             THEN doc.remainingBalance ELSE @,
        !.status = IF doc.status # base.status THEN doc.status ELSE @,
        !.voidedBy = IF doc.voidedBy # base.voidedBy THEN doc.voidedBy ELSE @,
        !.voidedAt = IF doc.voidedAt # base.voidedAt THEN doc.voidedAt ELSE @,
        !.voidReason = IF doc.voidReason # base.voidReason THEN doc.voidReason ELSE @,
        !.usageHistory = doc.usageHistory]

\* The write of save() of a loaded credit: `base` is the document as it was
\* loaded, `doc` the document as changed in memory, `db` the stored document.
\* Only the changed paths are $set; pushed usage records are $push-ed onto
\* the stored array.
SaveCredit(db, base, doc) ==
    [db EXCEPT
        !.remainingBalance = IF doc.remainingBalance # base.remainingBalance
                             THEN doc.remainingBalance ELSE @,
        !.status = IF doc.status # base.status THEN doc.status ELSE @,
        !.voidedBy = IF doc.voidedBy # base.voidedBy THEN doc.voidedBy ELSE @,
        !.voidedAt = IF doc.voidedAt # base.voidedAt THEN doc.voidedAt ELSE @,
        !.voidReason = IF doc.voidReason # base.voidReason THEN doc.voidReason ELSE @,
        !.usageHistory = @ \o SubSeq(doc.usageHistory, Len(base.usageHistory) + 1,
                                     Len(doc.usageHistory))]

\* StoreCredit.findOne({ organizationId, creditMemoNumber }): the _id found,
\* NoId when there is none.
FindCredit(cs, org, memo) ==
    LET found == {i \in DOMAIN cs : cs[i].organizationId = org
                                    /\ cs[i].creditMemoNumber = memo}
    IN  IF found = {} THEN NoId
        ELSE CHOOSE i \in found : \A j \in found : i <= j

\* statics.generateCreditMemoNumber at time t
GenerateCreditMemoNumber(cs, org, t) ==
    MkNumber("CM", t,
             NextSequence({cs[i].creditMemoNumber : i \in
                 {j \in DOMAIN cs : /\ cs[j].organizationId = org
                                    /\ MatchesBucket(cs[j].creditMemoNumber, "CM", t)}}))

\* The unique indexes of the collection: creditMemoNumber alone (the field's
\* unique: true) and (organizationId, creditMemoNumber).
CreditInsertCollides(cs, c) ==
    \E i \in DOMAIN cs :
        \/ cs[i].creditMemoNumber = c.creditMemoNumber
        \/ /\ cs[i].organizationId = c.organizationId
           /\ cs[i].creditMemoNumber = c.creditMemoNumber

\* expireCredits with $lt in the place of $lte.
ExpireCreditsDbBug(cs, t) ==
    [i \in DOMAIN cs |->
        IF /\ cs[i].status \in {"active", "partially_used"}
           /\ cs[i].expirationDate # NoDate
           /\ cs[i].expirationDate < t
        THEN [cs[i] EXCEPT !.status = "expired"]
        ELSE cs[i]]

\* statics.expireCredits at time t: one updateMany.
ExpireCreditsDb(cs, t) ==
    [i \in DOMAIN cs |->
        IF /\ cs[i].status \in {"active", "partially_used"}
           /\ cs[i].expirationDate # NoDate
           /\ cs[i].expirationDate <= t
        THEN [cs[i] EXCEPT !.status = "expired"]
        ELSE cs[i]]

\* The filter of find() in getCustomerBalance, at time t.
BalanceFilter(c, customerId, org, t) ==
    /\ c.customerId = customerId
    /\ c.organizationId = org
    /\ c.status \in {"active", "partially_used"}
    /\ (c.expirationDate = NoDate \/ c.expirationDate > t)

\* find(): the documents of cs that match, in the collection's order.
RECURSIVE FindForBalance(_, _, _, _)
FindForBalance(cs, customerId, org, t) ==
    IF Len(cs) = 0 THEN <<>>
    ELSE IF BalanceFilter(Head(cs), customerId, org, t)
         THEN <<Head(cs)>> \o FindForBalance(Tail(cs), customerId, org, t)
         ELSE FindForBalance(Tail(cs), customerId, org, t)

\* credits.reduce((sum, credit) => sum + credit.remainingBalance, 0)
RECURSIVE ReduceBalance(_)
ReduceBalance(found) ==
    IF Len(found) = 0 THEN 0
    ELSE ReduceBalance(SubSeq(found, 1, Len(found) - 1))
         + found[Len(found)].remainingBalance

\* getCustomerBalance with the organization left out of the filter.
GetCustomerBalanceBug(cs, customerId, org, t) ==
    LET found == FindForBalance(cs, customerId, "orgA", t)
                 \o FindForBalance(cs, customerId, "orgB", t)
    IN  [totalBalance |-> ReduceBalance(found), credits |-> found, count |-> Len(found)]

\* statics.getCustomerBalance at time t
GetCustomerBalance(cs, customerId, org, t) ==
    LET found == FindForBalance(cs, customerId, org, t)
    IN  [totalBalance |-> ReduceBalance(found), credits |-> found, count |-> Len(found)]

\* POST /pos/apply-credit up to the call of applyCredit: the status code it
\* answers with, 0 when it goes on to apply.
ApplyRouteCode(cs, org, memo, amount, t) ==
    LET cid == FindCredit(cs, org, memo)
    IN  IF memo = NoNumber \/ amount = 0 THEN 400
        ELSE IF cid = NoId THEN 404
        ELSE IF ~IsAvailable(cs[cid], t) THEN 400
        ELSE IF amount > cs[cid].remainingBalance THEN 400
        ELSE IF ApplyCreditThrows(cs[cid], amount, t) THEN 500
        ELSE 0

\* Usage records the model lets one credit collect.
InFlightApplies(cid) ==
    Cardinality({p \in Procs : procs[p].op = "apply" /\ procs[p].cid = cid})

MemosInUse == {credits[i].creditMemoNumber : i \in DOMAIN credits}
ApplyAmounts == (-1)..MaxAmount

(***************************************************************************)
(* POST /pos/apply-credit, in two steps: findOne + checks + applyCredit's  *)
(* changes in memory, then the write of save().                            *)
(***************************************************************************)
ApplyReject(org, memo, amount) ==
    /\ ApplyRouteCode(credits, org, memo, amount, now) # 0
    /\ resp' = Resp("apply", ApplyRouteCode(credits, org, memo, amount, now), org,
                    FindCredit(credits, org, memo))
    /\ UNCHANGED <<now, credits, rmas, nextRid, procs, resolvedOk, assignLog>>

ApplyLoad(p, org, memo, amount) ==
    /\ procs[p] = Idle
    /\ ApplyRouteCode(credits, org, memo, amount, now) = 0
    /\ LET cid == FindCredit(credits, org, memo)
       IN  /\ Len(credits[cid].usageHistory) + InFlightApplies(cid) < MaxUses
           /\ procs' = [procs EXCEPT ![p] =
                  [op |-> "apply", org |-> org, cid |-> cid, amount |-> amount,
                   base |-> credits[cid],
                   doc |-> ApplyCreditDoc(credits[cid], amount)]]
    /\ resp' = NoResp
    /\ UNCHANGED <<now, credits, rmas, nextRid, resolvedOk, assignLog>>

ApplySave(p) ==
    /\ procs[p].op = "apply"
    /\ LET q == procs[p]
       IN  IF ValidCredit(q.doc)
           THEN /\ credits' = [credits EXCEPT ![q.cid] = SaveCredit(@, q.base, q.doc)]
                /\ resp' = Resp("apply", 200, q.org, q.cid)
           ELSE /\ credits' = credits
                /\ resp' = Resp("apply", 500, q.org, q.cid)
    /\ procs' = [procs EXCEPT ![p] = Idle]
    /\ UNCHANGED <<now, rmas, nextRid, resolvedOk, assignLog>>

\* The same request with nothing else running between its load and its save.
ApplyAtomic(org, memo, amount) ==
    /\ ApplyRouteCode(credits, org, memo, amount, now) = 0
    /\ LET cid == FindCredit(credits, org, memo)
           doc == ApplyCreditDoc(credits[cid], amount)
       IN  /\ Len(credits[cid].usageHistory) < MaxUses
           /\ IF ValidCredit(doc)
              THEN /\ credits' = [credits EXCEPT ![cid] = SaveCredit(@, @, doc)]
                   /\ resp' = Resp("apply", 200, org, cid)
              ELSE /\ credits' = credits
                   /\ resp' = Resp("apply", 500, org, cid)
    /\ UNCHANGED <<now, rmas, nextRid, procs, resolvedOk, assignLog>>

(***************************************************************************)
(* methods.void on a loaded credit, in two steps: the load and void()'s    *)
(* changes in memory, then the write of save().                            *)
(***************************************************************************)
VoidReject(cid) ==
    /\ cid \in DOMAIN credits
    /\ VoidThrows(credits[cid])
    /\ resp' = Resp("void", 500, credits[cid].organizationId, cid)
    /\ UNCHANGED <<now, credits, rmas, nextRid, procs, resolvedOk, assignLog>>

VoidLoad(p, cid, userId, reason) ==
    /\ procs[p] = Idle
    /\ cid \in DOMAIN credits
    /\ ~VoidThrows(credits[cid])
    /\ procs' = [procs EXCEPT ![p] =
           [op |-> "void", org |-> credits[cid].organizationId, cid |-> cid,
            base |-> credits[cid], doc |-> VoidDoc(credits[cid], userId, reason, now)]]
    /\ resp' = NoResp
    /\ UNCHANGED <<now, credits, rmas, nextRid, resolvedOk, assignLog>>

VoidSave(p) ==
    /\ procs[p].op = "void"
    /\ LET q == procs[p]
       IN  /\ credits' = [credits EXCEPT ![q.cid] = SaveCredit(@, q.base, q.doc)]
           /\ resp' = Resp("void", 200, q.org, q.cid)
    /\ procs' = [procs EXCEPT ![p] = Idle]
    /\ UNCHANGED <<now, rmas, nextRid, resolvedOk, assignLog>>

VoidAtomic(cid, userId, reason) ==
    /\ cid \in DOMAIN credits
    /\ ~VoidThrows(credits[cid])
    /\ credits' = [credits EXCEPT ![cid] = SaveCredit(@, @, VoidDoc(@, userId, reason, now))]
    /\ resp' = Resp("void", 200, credits[cid].organizationId, cid)
    /\ UNCHANGED <<now, rmas, nextRid, procs, resolvedOk, assignLog>>

\* GET /customers/:customerId/credits
CustomerCredits(customerId, org) ==
    /\ LET creditBalance == GetCustomerBalance(credits, customerId, org, now)
       IN  resp' = [op |-> "balance", code |-> 200, customerId |-> customerId,
                    org |-> org, total |-> creditBalance.totalBalance,
                    activeCredits |-> creditBalance.count,
                    found |-> creditBalance.credits]
    /\ UNCHANGED <<now, credits, rmas, nextRid, procs, resolvedOk, assignLog>>

\* statics.expireCredits, the cleanup job.
ExpireCredits ==
    /\ credits' = ExpireCreditsDb(credits, now)
    /\ resp' = Resp("expire", 200, "", NoId)
    /\ UNCHANGED <<now, rmas, nextRid, procs, resolvedOk, assignLog>>

\* A month passes.
Tick ==
    /\ now < MaxTime
    /\ now' = now + 1
    /\ resp' = NoResp
    /\ UNCHANGED <<credits, rmas, nextRid, procs, resolvedOk, assignLog>>

(***************************************************************************)
(* RMA documents (src/models/RMA.js).                                      *)
(***************************************************************************)
RmaStatuses == {"pending_approval", "approved", "rejected", "received", "inspecting",
                "inspected", "refund_processing", "replacement_ordered",
                "credit_issued", "resolved", "closed", "cancelled"}

\* An item as a request body names it: no compliance data.
Item(productId, quantity, unitPrice, totalValue) ==
    [productId |-> productId, quantity |-> quantity, unitPrice |-> unitPrice,
     totalValue |-> totalValue, batchNumber |-> ""]

\* The paths of rmaItemSchema; a subdocument keeps no other field.
ItemPaths == {"productId", "quantity", "unitPrice", "totalValue", "batchNumber"}

\* The cast of an object to an rmaItemSchema subdocument (strict schema).
CastItem(item) == [f \in ItemPaths |-> item[f]]
CastItems(items) == [k \in DOMAIN items |-> CastItem(items[k])]

\* The Invoice collection, read only: _id -> document.  Both invoices belong
\* to orgA; the second line of invoice 2 is a malformed entry (no _id), on
\* which invItem._id.toString() throws.
Invoices ==
    (1 :> [organizationId |-> "orgA",
           items |-> <<[productId |-> "p1", unitPrice |-> 2, batchNumber |-> "B1",
                        stateTrackingId |-> "T1", hasId |-> TRUE]>>])
    @@
    (2 :> [organizationId |-> "orgA",
           items |-> <<[productId |-> "p1", unitPrice |-> 2, batchNumber |-> "B1",
                        stateTrackingId |-> "T1", hasId |-> TRUE],
                       [productId |-> "", unitPrice |-> 0, batchNumber |-> "",
                        stateTrackingId |-> "", hasId |-> FALSE],
                       [productId |-> "p2", unitPrice |-> 2, batchNumber |-> "B2",
                        stateTrackingId |-> "T2", hasId |-> TRUE]>>])

\* POST /: the items of the request enriched from the related invoice; an item
\* with a matching invoice line takes the invoice's unit price.
EnrichItem(item, invoice) ==
    LET matches == {k \in DOMAIN invoice.items :
                        invoice.items[k].productId = item.productId}
    IN  IF matches = {} THEN item
        ELSE LET invoiceItem == invoice.items[CHOOSE k \in matches :
                                                  \A m \in matches : k <= m]
             IN  [item EXCEPT !.unitPrice = invoiceItem.unitPrice,
                              !.totalValue = item.quantity * invoiceItem.unitPrice,
                              !.batchNumber = invoiceItem.batchNumber]
                 @@ [stateTrackingId |-> invoiceItem.stateTrackingId]

\* The try block around Invoice.findById and items.map: find() walks the
\* invoice's lines up to the first match and throws on a malformed line it
\* comes by; the catch leaves enrichedItems as the items of the body.
EnrichedItems(items, relatedInvoiceId) ==
    LET invoice == Invoices[relatedInvoiceId]
        Throws(item) ==
            \E k \in DOMAIN invoice.items :
                /\ ~invoice.items[k].hasId
                /\ \A m \in 1..(k - 1) : invoice.items[m].productId # item.productId
    IN  IF relatedInvoiceId # NoId /\ relatedInvoiceId \in DOMAIN Invoices
        THEN IF \E k \in DOMAIN items : Throws(items[k])
             THEN items
             ELSE [k \in DOMAIN items |-> EnrichItem(items[k], invoice)]
        ELSE items

LineValue(item) == item.totalValue

\* items.reduce((sum, item) => sum + item.totalValue, 0)
ItemsTotal(items) == SumSeq([k \in DOMAIN items |-> LineValue(items[k])])

\* pre('save'): "Calculate total value before saving"
PreSaveTotal(doc) ==
    IF Len(doc.items) > 0
    THEN [doc EXCEPT !.totalValue = ItemsTotal(doc.items)]
    ELSE doc

\* new RMA({...}) in POST /, with the schema's defaults.
NewRma(org, body, items) ==
    [organizationId |-> org,
     rmaNumber |-> NoNumber,
     customerId |-> body.customerId,
     customerName |-> body.customerName,
     relatedInvoiceId |-> body.relatedInvoiceId,
     items |-> CastItems(items),
     totalValue |-> 0,
     returnReason |-> body.returnReason,
     status |-> "pending_approval",
     approvedBy |-> "",
     rejectionReason |-> "",
     inspectionResult |-> "pending",
     resolutionType |-> "pending",
     refundAmount |-> 0,
     creditAmount |-> 0,
     creditMemoNumber |-> NoNumber,
     lastModifiedBy |-> "",
     closedBy |-> "",
     version |-> 0]

\* pre('save'): "Auto-generate RMA Number", for a new document at time t.
GenerateRmaNumber(db, org, t) ==
    MkNumber("RMA", t,
             NextSequence({db[i].rmaNumber : i \in
                 {j \in DOMAIN db : /\ db[j].organizationId = org
                                    /\ MatchesBucket(db[j].rmaNumber, "RMA", t)}}))

\* rmaNumber: { unique: true }: the insert fails on any stored document, of
\* any organization, with the same number.
RmaInsertCollides(db, doc) ==
    \E i \in DOMAIN db : db[i].rmaNumber = doc.rmaNumber

\* The document methods, up to their save().
ApproveDoc(d, userId) == [d EXCEPT !.status = "approved", !.approvedBy = userId]
RejectDoc(d, userId, reason) ==
    [d EXCEPT !.status = "rejected", !.approvedBy = userId, !.rejectionReason = reason]
\* markReceived setting a declared status that no method sets.
MarkReceivedDocBug(d, userId) == [d EXCEPT !.status = "inspecting"]

MarkReceivedDoc(d, userId) == [d EXCEPT !.status = "received"]
CompleteInspectionDoc(d, userId, result) ==
    [d EXCEPT !.status = "inspected", !.inspectionResult = result]
ProcessRefundDoc(d, amount) ==
    [d EXCEPT !.resolutionType = "refund", !.refundAmount = amount, !.status = "resolved"]
ProcessReplacementDoc(d) ==
    [d EXCEPT !.resolutionType = "replacement", !.status = "resolved"]
IssueCreditDoc(d, amount, memo) ==
    [d EXCEPT !.resolutionType = "store_credit", !.creditAmount = amount,
              !.creditMemoNumber = memo, !.status = "resolved"]
CloseDoc(d, userId) == [d EXCEPT !.status = "closed", !.closedBy = userId]

ScalarPaths == {"customerId", "customerName", "totalValue", "returnReason", "status",
                "approvedBy", "rejectionReason", "inspectionResult", "resolutionType",
                "refundAmount", "creditAmount", "creditMemoNumber", "lastModifiedBy",
                "closedBy"}

\* save() of a loaded RMA replaces the items array only under the version it
\* was loaded with (VersionError otherwise).
SaveRmaConflicts(db, base, itemsSet) == itemsSet /\ db.version # base.version

\* save() with a number hook that does not look at isNew: the number is
\* generated again at every save.
SaveRmaBug(db, base, doc, itemsSet) ==
    [f \in DOMAIN db |->
        IF f = "rmaNumber" THEN GenerateRmaNumber(rmas, db.organizationId, now)
        ELSE IF f \in ScalarPaths THEN (IF doc[f] # base[f] THEN doc[f] ELSE db[f])
        ELSE IF f = "items" THEN (IF itemsSet THEN doc.items ELSE db.items)
        ELSE IF f = "version" THEN (IF itemsSet THEN db.version + 1 ELSE db.version)
        ELSE db[f]]

\* The write of save() of a loaded RMA: the changed scalar paths are $set;
\* an assigned items array is $set whole and the version incremented.
SaveRma(db, base, doc, itemsSet) ==
    [f \in DOMAIN db |->
        IF f \in ScalarPaths THEN (IF doc[f] # base[f] THEN doc[f] ELSE db[f])
        ELSE IF f = "items" THEN (IF itemsSet THEN doc.items ELSE db.items)
        ELSE IF f = "version" THEN (IF itemsSet THEN db.version + 1 ELSE db.version)
        ELSE db[f]]

\* findOne by _id alone.
FindRmaBug(db, org, rid) == rid \in DOMAIN db

\* RMA.findOne({ _id, organizationId })
FindRma(db, org, rid) == rid \in DOMAIN db /\ db[rid].organizationId = org

RmaIds == 1..MaxCreates

\* Resolutions the model lets a run collect: those answered with success and
\* those in flight.
InFlightResolves ==
    Cardinality({p \in Procs : procs[p].op \in {"resolve", "process_refund",
                                                 "issue_credit"}})
RECURSIVE SumOver(_, _)
SumOver(f, S) == IF S = {} THEN 0
                 ELSE LET x == CHOOSE y \in S : TRUE IN f[x] + SumOver(f, S \ {x})
MayResolve(rid) ==
    SumOver([i \in RmaIds |-> Len(resolvedOk[i])], RmaIds) + InFlightResolves < MaxResolves

Loaded(op, org, rid, doc, itemsSet) ==
    [op |-> op, pc |-> "save", org |-> org, rid |-> rid, base |-> rmas[rid],
     doc |-> doc, itemsSet |-> itemsSet]

\* A handler's first stretch: it answers `code`, or goes on to save `doc`.
RmaStep(p, op, org, rid, code, doc, itemsSet) ==
    /\ procs[p] = Idle
    /\ IF code # 0
       THEN /\ resp' = Resp(op, code, org, rid)
            /\ procs' = procs
       ELSE /\ resp' = NoResp
            /\ procs' = [procs EXCEPT ![p] = Loaded(op, org, rid, doc, itemsSet)]
    /\ UNCHANGED <<now, credits, rmas, nextRid, resolvedOk, assignLog>>

(***************************************************************************)
(* POST /: create a return request.  Validation, the invoice lookup, the   *)
(* construction of the document and the read of the highest number of the  *)
(* bucket (first pre-save hook) are the first step, the insert the second. *)
(***************************************************************************)
CreateItemLists == {<<Item("p1", 1, 1, 1), Item("p2", 1, 2, 2)>>}
ValidCreateBodies == [customerId : Customers, customerName : {"Ann"},
                      returnReason : {"damaged"}, items : CreateItemLists,
                      relatedInvoiceId : {NoId, 1, 2}]
CreateBodies ==
    ValidCreateBodies \cup
    {[customerId |-> "cust1", customerName |-> "", returnReason |-> "damaged",
      items |-> <<Item("p1", 1, 1, 1)>>, relatedInvoiceId |-> NoId],
     [customerId |-> "cust1", customerName |-> "Ann", returnReason |-> "",
      items |-> <<Item("p1", 1, 1, 1)>>, relatedInvoiceId |-> NoId],
     [customerId |-> "cust1", customerName |-> "Ann", returnReason |-> "damaged",
      items |-> <<>>, relatedInvoiceId |-> NoId]}

CreateCode(body) ==
    IF body.customerName = "" THEN 400
    ELSE IF Len(body.items) = 0 THEN 400
    ELSE IF body.returnReason = "" THEN 400
    ELSE 0

CreateBegin(p, org, body) ==
    /\ procs[p] = Idle
    /\ IF CreateCode(body) # 0
       THEN /\ resp' = Resp("create", CreateCode(body), org, NoId)
            /\ UNCHANGED <<procs, nextRid>>
       ELSE /\ nextRid <= MaxCreates
            /\ resp' = NoResp
            /\ nextRid' = nextRid + 1
            /\ procs' = [procs EXCEPT ![p] =
                   [op |-> "create", pc |-> "insert", org |-> org, rid |-> nextRid,
                    doc |-> PreSaveTotal(
                        [NewRma(org, body, EnrichedItems(body.items, body.relatedInvoiceId))
                            EXCEPT !.rmaNumber = GenerateRmaNumber(rmas, org, now)])]]
    /\ UNCHANGED <<now, credits, rmas, resolvedOk, assignLog>>

CreateInsert(p) ==
    /\ procs[p].op = "create"
    /\ LET q == procs[p]
       IN  IF RmaInsertCollides(rmas, q.doc)
           THEN /\ resp' = Resp("create", 500, q.org, q.rid)
                /\ UNCHANGED <<rmas, assignLog>>
           ELSE /\ resp' = Resp("create", 201, q.org, q.rid)
                /\ rmas' = (q.rid :> q.doc) @@ rmas
                /\ assignLog' = Append(assignLog,
                       [rid |-> q.rid, org |-> q.org, number |-> q.doc.rmaNumber])
    /\ procs' = [procs EXCEPT ![p] = Idle]
    /\ UNCHANGED <<now, credits, nextRid, resolvedOk>>

(***************************************************************************)
(* The transitions: findOne, the status check and the document method up   *)
(* to its save() are the first step; RmaSave is the write.                 *)
(***************************************************************************)
\* approve with the status check left out, as in PUT /:id/reject.
ApproveCodeBug(org, rid) ==
    IF ~FindRma(rmas, org, rid) THEN 404
    ELSE 0

ApproveCode(org, rid) ==
    IF ~FindRma(rmas, org, rid) THEN 404
    ELSE IF rmas[rid].status # "pending_approval" THEN 400
    ELSE 0

Approve(p, org, rid, userId) ==
    RmaStep(p, "approve", org, rid, ApproveCode(org, rid),
            ApproveDoc(rmas[rid], userId), FALSE)

\* reject with the check of the reason left out.
RejectCodeBug(org, rid, reason) ==
    IF ~FindRma(rmas, org, rid) THEN 404
    ELSE 0

RejectCode(org, rid, reason) ==
    IF reason = "" THEN 400
    ELSE IF ~FindRma(rmas, org, rid) THEN 404
    ELSE 0

Reject(p, org, rid, userId, reason) ==
    RmaStep(p, "reject", org, rid, RejectCode(org, rid, reason),
            RejectDoc(rmas[rid], userId, reason), FALSE)

ReceiveCode(org, rid) ==
    IF ~FindRma(rmas, org, rid) THEN 404
    ELSE IF rmas[rid].status # "approved" THEN 400
    ELSE 0

Receive(p, org, rid, userId) ==
    RmaStep(p, "receive", org, rid, ReceiveCode(org, rid),
            MarkReceivedDoc(rmas[rid], userId), FALSE)

InspectCode(org, rid, result) ==
    IF result = "" THEN 400
    ELSE IF ~FindRma(rmas, org, rid) THEN 404
    ELSE IF rmas[rid].status # "received" /\ rmas[rid].status # "inspecting" THEN 400
    ELSE 0

Inspect(p, org, rid, userId, result) ==
    RmaStep(p, "inspect", org, rid, InspectCode(org, rid, result),
            CompleteInspectionDoc(rmas[rid], userId, result), FALSE)

ResolutionTypes == {"refund", "replacement", "store_credit"}

ResolveCode(org, rid, type) ==
    IF type = "" THEN 400
    ELSE IF ~FindRma(rmas, org, rid) THEN 404
    ELSE IF rmas[rid].status # "inspected" THEN 400
    ELSE IF type \notin ResolutionTypes THEN 400
    ELSE 0

\* The switch of PUT /:id/resolve; amount 0 is an absent amount.
ResolveDoc(d, type, amount, memo) ==
    LET value == IF amount # 0 THEN amount ELSE d.totalValue
    IN  CASE type = "refund" -> ProcessRefundDoc(d, value)
          [] type = "replacement" -> ProcessReplacementDoc(d)
          [] type = "store_credit" -> IssueCreditDoc(d, value, memo)

Resolve(p, org, rid, type, amount, memo) ==
    /\ ResolveCode(org, rid, type) = 0 => MayResolve(rid)
    /\ RmaStep(p, "resolve", org, rid, ResolveCode(org, rid, type),
               ResolveDoc(rmas[rid], type, amount, memo), FALSE)

\* PUT /:id/process-refund.  refundProcessed is not a path of rmaSchema, so a
\* loaded document never has it and the "already refunded" answer is never
\* given.  The refund Transaction the handler inserts before it saves the
\* RMA belongs to the Transaction collection, which is not modelled.
RefundProcessed(d) == FALSE

ProcessRefundCode(org, rid, amount) ==
    IF amount <= 0 THEN 400
    ELSE IF ~FindRma(rmas, org, rid) THEN 404
    ELSE IF rmas[rid].status # "inspected" THEN 400
    ELSE IF rmas[rid].resolutionType = "refund" /\ RefundProcessed(rmas[rid]) THEN 400
    ELSE 0

ProcessRefund(p, org, rid, amount) ==
    /\ ProcessRefundCode(org, rid, amount) = 0 => MayResolve(rid)
    /\ RmaStep(p, "process_refund", org, rid, ProcessRefundCode(org, rid, amount),
               ProcessRefundDoc(rmas[rid], amount), FALSE)

CloseCode(org, rid) ==
    IF ~FindRma(rmas, org, rid) THEN 404
    ELSE IF rmas[rid].status # "resolved" THEN 400
    ELSE 0

Close(p, org, rid, userId) ==
    RmaStep(p, "close", org, rid, CloseCode(org, rid), CloseDoc(rmas[rid], userId), FALSE)

(***************************************************************************)
(* PUT /:id/destroy.  metrcUp tells whether metrcService can be reached.   *)
(* The handler assigns the destruction fields to the loaded document; none *)
(* of them is a path of rmaSchema (nor the disposition fields of           *)
(* rmaItemSchema), so they are properties of the object in memory that     *)
(* save() does not write.                                                  *)
(***************************************************************************)
DestroyBodies == [destructionMethod : {"", "incineration"},
                  destructionWitnessName : {"", "Sam"}]

\* destroy with the status check left out.
DestroyCodeBug(org, rid, body) ==
    IF body.destructionMethod = "" THEN 400
    ELSE IF body.destructionWitnessName = "" THEN 400
    ELSE IF ~FindRma(rmas, org, rid) THEN 404
    ELSE 0

DestroyCode(org, rid, body) ==
    IF body.destructionMethod = "" THEN 400
    ELSE IF body.destructionWitnessName = "" THEN 400
    ELSE IF ~FindRma(rmas, org, rid) THEN 404
    ELSE IF rmas[rid].status # "resolved" THEN 400
    ELSE 0

\* The document in memory before save(), at time t.
DestroyDoc(d, body, metrcUp, t) ==
    LET Weight(item) == IF "weight" \in DOMAIN item THEN item.weight * item.quantity
                        ELSE 0
        totalWeightDestroyed == SumSeq([k \in DOMAIN d.items |-> Weight(d.items[k])])
        wasteItems == {k \in DOMAIN d.items : /\ "stateTrackingId" \in DOMAIN d.items[k]
                                              /\ d.items[k].stateTrackingId # ""}
        metrcResult ==
            IF wasteItems # {} /\ ~metrcUp
            THEN [success |-> FALSE, error |-> "unreachable",
                  requiresManualReporting |-> TRUE]
            ELSE [success |-> TRUE, error |-> "", requiresManualReporting |-> FALSE]
    IN  [destructionMethod |-> body.destructionMethod,
         destructionWitnessName |-> body.destructionWitnessName,
         totalWeightDestroyed |-> totalWeightDestroyed,
         wasteManifestNumber |-> <<"WM", d.rmaNumber, t>>,
         metrcReported |-> metrcResult.success]
        @@ [d EXCEPT !.items = [k \in DOMAIN d.items |->
                                   [dispositionMethod |-> "destroy"] @@ d.items[k]]]

Destroy(p, org, rid, body, metrcUp) ==
    /\ procs[p] = Idle
    /\ IF DestroyCode(org, rid, body) # 0
       THEN /\ resp' = Resp("destroy", DestroyCode(org, rid, body), org, rid)
            /\ procs' = procs
       ELSE /\ resp' = NoResp
            /\ procs' = [procs EXCEPT ![p] =
                   [metrcUp |-> metrcUp]
                   @@ Loaded("destroy", org, rid,
                             DestroyDoc(rmas[rid], body, metrcUp, now), FALSE)]
    /\ UNCHANGED <<now, credits, rmas, nextRid, resolvedOk, assignLog>>

\* PUT /:id.  A body names the items or not (hasItems) and the customer name
\* or not ("").
UpdateBodies ==
    {[hasItems |-> FALSE, items |-> <<>>, customerName |-> ""],
     [hasItems |-> TRUE, items |-> <<>>, customerName |-> ""],
     [hasItems |-> TRUE, items |-> <<Item("p1", 1, 2, 2)>>, customerName |-> ""]}

UpdateCode(org, rid) ==
    IF ~FindRma(rmas, org, rid) THEN 404
    ELSE IF rmas[rid].status \in {"resolved", "closed", "rejected"} THEN 400
    ELSE 0

UpdateDoc(d, body, userId) ==
    [d EXCEPT !.customerName = IF body.customerName # "" THEN body.customerName ELSE @,
              !.items = IF body.hasItems THEN CastItems(body.items) ELSE @,
              !.lastModifiedBy = userId]

Update(p, org, rid, body, userId) ==
    /\ (UpdateCode(org, rid) = 0 /\ body.hasItems) => rmas[rid].version < MaxEdits
    /\ RmaStep(p, "update", org, rid, UpdateCode(org, rid),
               UpdateDoc(rmas[rid], body, userId), body.hasItems)

SaveOps == {"approve", "reject", "receive", "inspect", "resolve", "process_refund",
            "issue_credit", "close", "update", "destroy"}

ResolvedAs(q) == q.doc.resolutionType

\* rma.save() of a loaded document and the handler's answer.  A document
\* deleted in the meantime makes save() throw (DocumentNotFoundError).
RmaSave(p) ==
    /\ procs[p].op \in SaveOps
    /\ procs[p].pc = "save"
    /\ LET q == procs[p]
       IN  IF q.rid \notin DOMAIN rmas \/ SaveRmaConflicts(rmas[q.rid], q.base, q.itemsSet)
           THEN /\ resp' = Resp(q.op, 500, q.org, q.rid)
                /\ UNCHANGED <<rmas, resolvedOk>>
           ELSE /\ resp' = Resp(q.op, 200, q.org, q.rid)
                /\ rmas' = [rmas EXCEPT ![q.rid] =
                               SaveRma(@, q.base, PreSaveTotal(q.doc), q.itemsSet)]
                /\ resolvedOk' =
                       IF q.op \in {"resolve", "process_refund", "issue_credit"}
                       THEN [resolvedOk EXCEPT ![q.rid] = Append(@, ResolvedAs(q))]
                       ELSE resolvedOk
    /\ procs' = [procs EXCEPT ![p] = Idle]
    /\ UNCHANGED <<now, credits, nextRid, assignLog>>

(***************************************************************************)
(* DELETE /:id: findOne and the status/owner check, then findByIdAndDelete.*)
(***************************************************************************)
DeleteCode(org, rid, isOwner) ==
    IF ~FindRma(rmas, org, rid) THEN 404
    ELSE IF ~(rmas[rid].status = "pending_approval" \/ isOwner) THEN 403
    ELSE 0

DeleteBegin(p, org, rid, isOwner) ==
    /\ procs[p] = Idle
    /\ IF DeleteCode(org, rid, isOwner) # 0
       THEN /\ resp' = Resp("delete", DeleteCode(org, rid, isOwner), org, rid)
            /\ procs' = procs
       ELSE /\ resp' = NoResp
            /\ procs' = [procs EXCEPT ![p] =
                            [op |-> "delete", pc |-> "delete", org |-> org, rid |-> rid,
                             isOwner |-> isOwner]]
    /\ UNCHANGED <<now, credits, rmas, nextRid, resolvedOk, assignLog>>

DeleteDo(p) ==
    /\ procs[p].op = "delete"
    /\ rmas' = [i \in DOMAIN rmas \ {procs[p].rid} |-> rmas[i]]
    /\ resp' = Resp("delete", 200, procs[p].org, procs[p].rid)
    /\ procs' = [procs EXCEPT ![p] = Idle]
    /\ UNCHANGED <<now, credits, nextRid, resolvedOk, assignLog>>

(***************************************************************************)
(* PUT /:id/issue-credit, in four steps: findOne of the RMA and the        *)
(* checks; the memo number (generated or looked up); the insert of the     *)
(* StoreCredit; the save of the RMA.                                       *)
(***************************************************************************)
\* new StoreCredit({...}) at time t; months 0 is an absent expirationMonths.
NewStoreCredit(org, memo, rma, rid, amount, months, userId, t) ==
    [organizationId |-> org,
     creditMemoNumber |-> memo,
     customerId |-> rma.customerId,
     originalAmount |-> amount,
     remainingBalance |-> amount,
     status |-> "active",
     sourceType |-> "rma_refund",
     sourceReferenceId |-> rid,
     expirationDate |-> IF months > 0 THEN t + months ELSE NoDate,
     usageHistory |-> <<>>,
     issuedBy |-> userId,
     voidedBy |-> "",
     voidedAt |-> NoDate,
     voidReason |-> ""]

IssueCreditCode(org, rid, amount) ==
    IF amount <= 0 THEN 400
    ELSE IF ~FindRma(rmas, org, rid) THEN 404
    ELSE IF rmas[rid].status # "inspected" THEN 400
    ELSE IF /\ rmas[rid].resolutionType = "store_credit"
            /\ rmas[rid].creditMemoNumber # NoNumber THEN 400
    ELSE 0

\* The final memo number: generated when the body names none.
FinalCreditMemoNumber(cs, org, memoIn, t) ==
    IF memoIn = NoNumber THEN GenerateCreditMemoNumber(cs, org, t) ELSE memoIn

\* "Credit memo ... already exists"
MemoExists(cs, org, memoIn) == memoIn # NoNumber /\ FindCredit(cs, org, memoIn) # NoId

IssueCreditBegin(p, org, rid, amount, memoIn, months, userId) ==
    /\ procs[p] = Idle
    /\ IF IssueCreditCode(org, rid, amount) # 0
       THEN /\ resp' = Resp("issue_credit", IssueCreditCode(org, rid, amount), org, rid)
            /\ procs' = procs
       ELSE /\ MayResolve(rid)
            /\ resp' = NoResp
            /\ procs' = [procs EXCEPT ![p] =
                   [op |-> "issue_credit", pc |-> "memo", org |-> org, rid |-> rid,
                    base |-> rmas[rid], doc |-> rmas[rid], itemsSet |-> FALSE,
                    amount |-> amount, memoIn |-> memoIn, months |-> months,
                    userId |-> userId, credit |-> NoNumber]]
    /\ UNCHANGED <<now, credits, rmas, nextRid, resolvedOk, assignLog>>

IssueCreditMemo(p) ==
    /\ procs[p].op = "issue_credit"
    /\ procs[p].pc = "memo"
    /\ LET q == procs[p]
       IN  IF MemoExists(credits, q.org, q.memoIn)
           THEN /\ resp' = Resp("issue_credit", 400, q.org, q.rid)
                /\ procs' = [procs EXCEPT ![p] = Idle]
           ELSE /\ resp' = NoResp
                /\ procs' = [procs EXCEPT ![p] = [q EXCEPT
                       !.pc = "credit",
                       !.credit = NewStoreCredit(q.org,
                                      FinalCreditMemoNumber(credits, q.org, q.memoIn, now),
                                      q.base, q.rid, q.amount, q.months, q.userId, now)]]
    /\ UNCHANGED <<now, credits, rmas, nextRid, resolvedOk, assignLog>>

IssueCreditInsert(p) ==
    /\ procs[p].op = "issue_credit"
    /\ procs[p].pc = "credit"
    /\ LET q == procs[p]
       IN  IF CreditInsertCollides(credits, q.credit) \/ ~ValidCredit(q.credit)
           THEN /\ resp' = Resp("issue_credit", 500, q.org, q.rid)
                /\ procs' = [procs EXCEPT ![p] = Idle]
                /\ credits' = credits
           ELSE /\ resp' = NoResp
                /\ credits' = Append(credits, q.credit)
                /\ procs' = [procs EXCEPT ![p] = [q EXCEPT
                       !.pc = "save",
                       !.doc = IssueCreditDoc(q.base, q.amount, q.credit.creditMemoNumber)]]
    /\ UNCHANGED <<now, rmas, nextRid, resolvedOk, assignLog>>

\* The same request with nothing else running between its steps.
IssueCreditAtomic(org, rid, amount, memoIn, months, userId) ==
    /\ IssueCreditCode(org, rid, amount) = 0
    /\ LET credit == NewStoreCredit(org, FinalCreditMemoNumber(credits, org, memoIn, now),
                                    rmas[rid], rid, amount, months, userId, now)
           doc == IssueCreditDoc(rmas[rid], amount, credit.creditMemoNumber)
       IN  IF MemoExists(credits, org, memoIn)
           THEN /\ resp' = Resp("issue_credit", 400, org, rid)
                /\ UNCHANGED <<credits, rmas, resolvedOk>>
           ELSE IF CreditInsertCollides(credits, credit) \/ ~ValidCredit(credit)
           THEN /\ resp' = Resp("issue_credit", 500, org, rid)
                /\ UNCHANGED <<credits, rmas, resolvedOk>>
           ELSE /\ resp' = Resp("issue_credit", 200, org, rid)
                /\ credits' = Append(credits, credit)
                /\ rmas' = [rmas EXCEPT ![rid] = SaveRma(@, @, PreSaveTotal(doc), FALSE)]
                /\ resolvedOk' = [resolvedOk EXCEPT ![rid] = Append(@, doc.resolutionType)]
    /\ UNCHANGED <<now, nextRid, procs, assignLog>>

(***************************************************************************)
(* Specifications.  Requests are interchangeable, so a new request takes   *)
(* the first free slot of procs.                                           *)
(***************************************************************************)
Users == {"u1"}
Amounts == 0..MaxAmount
ResolveAmounts == {0, MaxAmount}
MemoInputs == {NoNumber, CustomMemo}
MonthInputs == {0, 1}
VoidReasons == {"mistake", "fraud"}
ResolveBodies ==
    {[type |-> "", amount |-> 0, memo |-> NoNumber],
     [type |-> "replacement", amount |-> 0, memo |-> NoNumber]}
    \cup [type : {"refund"}, amount : ResolveAmounts, memo : {NoNumber}]
    \cup [type : {"store_credit"}, amount : ResolveAmounts, memo : {CustomMemo}]

FreeProcs ==
    LET free == {p \in Procs : procs[p] = Idle}
    IN  IF free = {} THEN {} ELSE {CHOOSE p \in free : \A q \in free : p <= q}

InitCommon ==
    /\ now = 1
    /\ credits = <<>>
    /\ procs = [p \in Procs |-> Idle]
    /\ resp = NoResp
    /\ resolvedOk = [i \in RmaIds |-> <<>>]

\* A stored return request as POST / leaves it, numbered `sequence` in month 1.
StoredRma(org, sequence, status) ==
    [PreSaveTotal(NewRma(org, [customerId |-> "cust1", customerName |-> "Ann",
                               returnReason |-> "damaged",
                               relatedInvoiceId |-> NoId],
                         <<Item("p1", 1, 1, 1)>>))
        EXCEPT !.rmaNumber = MkNumber("RMA", 1, sequence),
               !.status = status,
               !.approvedBy = IF status = "pending_approval" THEN "" ELSE "u1",
               !.inspectionResult = IF status = "inspected" THEN "confirmed_defective"
                                    ELSE "pending"]

LogEntry(rid, doc) == [rid |-> rid, org |-> doc.organizationId, number |-> doc.rmaNumber]

(***************************************************************************)
(* Spec: intake.  One organization's requests are created, edited,         *)
(* approved and deleted, starting from an empty collection; a request is   *)
(* created when none is stored, so that one is stored at a time.           *)
(***************************************************************************)
NoneStored == DOMAIN rmas = {} /\ \A q \in Procs : procs[q].op # "create"

Init ==
    /\ InitCommon
    /\ rmas = [i \in {} |-> 0]
    /\ nextRid = 1
    /\ assignLog = <<>>

Next ==
    \/ \E p \in FreeProcs, org \in {"orgA"} :
        \/ \E body \in CreateBodies : NoneStored /\ CreateBegin(p, org, body)
        \/ \E rid \in RmaIds, userId \in Users :
            \/ Approve(p, org, rid, userId)
            \/ \E body \in UpdateBodies : Update(p, org, rid, body, userId)
            \/ \E isOwner \in BOOLEAN : DeleteBegin(p, org, rid, isOwner)
    \/ \E p \in Procs :
        \/ CreateInsert(p)
        \/ RmaSave(p)
        \/ DeleteDo(p)

Spec == Init /\ [][Next]_vars

(***************************************************************************)
(* SpecNumbering: the numbers of the requests of two organizations over    *)
(* the months.  Only creation and deletion read or write rmaNumber and     *)
(* organizationId, and an owner may delete a request in any status, so     *)
(* the other handlers are left out of this specification.                  *)
(***************************************************************************)
NumberingBody == [customerId |-> "cust1", customerName |-> "Ann",
                  returnReason |-> "damaged", items |-> <<Item("p1", 1, 1, 1)>>,
                  relatedInvoiceId |-> NoId]

NextNumbering ==
    \/ Tick
    \/ \E p \in FreeProcs, org \in Orgs :
        \/ CreateBegin(p, org, NumberingBody)
        \/ \E rid \in RmaIds, isOwner \in BOOLEAN : DeleteBegin(p, org, rid, isOwner)
    \/ \E p \in Procs :
        \/ CreateInsert(p)
        \/ DeleteDo(p)

SpecNumbering == Init /\ [][NextNumbering]_vars

(***************************************************************************)
(* SpecResolve: resolution.  Two requests of one organization have been    *)
(* created, approved and received, and are inspected or about to be.       *)
(***************************************************************************)
InitResolve ==
    /\ InitCommon
    /\ \E s1 \in {"received", "inspected"} :
           rmas = (1 :> StoredRma("orgA", 1, s1)) @@ (2 :> StoredRma("orgA", 2, "inspected"))
    /\ nextRid = 3
    /\ assignLog = <<LogEntry(1, rmas[1]), LogEntry(2, rmas[2])>>

NextResolve ==
    \/ \E p \in FreeProcs, org \in Orgs, rid \in DOMAIN rmas, userId \in Users :
        \/ \E result \in {"", "confirmed_defective"} :
               Inspect(p, org, rid, userId, result)
        \/ \E body \in ResolveBodies :
               Resolve(p, org, rid, body.type, body.amount, body.memo)
        \/ \E amount \in ResolveAmounts : ProcessRefund(p, org, rid, amount)
        \/ \E amount \in ResolveAmounts, memo \in MemoInputs :
               IssueCreditBegin(p, org, rid, amount, memo, 0, userId)
        \/ Close(p, org, rid, userId)
    \/ \E p \in Procs :
        \/ IssueCreditMemo(p)
        \/ IssueCreditInsert(p)
        \/ RmaSave(p)

SpecResolve == InitResolve /\ [][NextResolve]_vars

(***************************************************************************)
(* SpecLedger: the store-credit ledger.  One inspected request is resolved *)
(* by a credit, which is then applied, voided and expired by requests that *)
(* overlap.  SpecLedgerSeq is the same with one request at a time.         *)
(***************************************************************************)
InitLedger ==
    /\ InitCommon
    /\ rmas = (1 :> StoredRma("orgA", 1, "inspected"))
    /\ nextRid = 2
    /\ assignLog = <<LogEntry(1, rmas[1])>>

IssueStep ==
    \E org \in Orgs, rid \in DOMAIN rmas, amount \in Amounts, memo \in MemoInputs,
       months \in MonthInputs, userId \in Users :
        IssueCreditAtomic(org, rid, amount, memo, months, userId)

NextLedger ==
    \/ Tick
    \/ IssueStep
    \/ ExpireCredits
    \/ \E org \in Orgs, memo \in MemosInUse \cup {NoNumber}, amount \in ApplyAmounts :
           ApplyReject(org, memo, amount)
    \/ \E cid \in DOMAIN credits : VoidReject(cid)
    \/ \E p \in FreeProcs :
        \/ \E org \in Orgs, memo \in MemosInUse, amount \in ApplyAmounts :
               ApplyLoad(p, org, memo, amount)
        \/ \E cid \in DOMAIN credits, userId \in Users : VoidLoad(p, cid, userId, "mistake")
    \/ \E p \in Procs :
        \/ ApplySave(p)
        \/ VoidSave(p)

SpecLedger == InitLedger /\ [][NextLedger]_vars

NextLedgerSeq ==
    \/ Tick
    \/ IssueStep
    \/ ExpireCredits
    \/ \E org \in Orgs, memo \in MemosInUse \cup {NoNumber}, amount \in ApplyAmounts :
        \/ ApplyReject(org, memo, amount)
        \/ ApplyAtomic(org, memo, amount)
    \/ \E cid \in DOMAIN credits :
        \/ VoidReject(cid)
        \/ \E userId \in Users, reason \in VoidReasons : VoidAtomic(cid, userId, reason)

SpecLedgerSeq == InitLedger /\ [][NextLedgerSeq]_vars

(***************************************************************************)
(* SpecLifecycle: the life of one request of one organization, from        *)
(* pending_approval on, under every transition, edit and deletion, by      *)
(* requests that overlap.                                                  *)
(***************************************************************************)
RejectReasons == {"", "not covered"}

InitLifecycle ==
    /\ InitCommon
    /\ rmas = (1 :> StoredRma("orgA", 1, "pending_approval"))
    /\ nextRid = 2
    /\ assignLog = <<LogEntry(1, rmas[1])>>

NextLifecycle ==
    \/ \E p \in FreeProcs, org \in {"orgA"}, rid \in DOMAIN rmas, userId \in Users :
        \/ Approve(p, org, rid, userId)
        \/ \E reason \in RejectReasons : Reject(p, org, rid, userId, reason)
        \/ Receive(p, org, rid, userId)
        \/ Inspect(p, org, rid, userId, "confirmed_defective")
        \/ \E type \in {"refund", "replacement"} :
               Resolve(p, org, rid, type, 0, NoNumber)
        \/ Close(p, org, rid, userId)
        \/ \E body \in UpdateBodies : Update(p, org, rid, body, userId)
        \/ \E isOwner \in BOOLEAN : DeleteBegin(p, org, rid, isOwner)
    \/ \E p \in Procs :
        \/ RmaSave(p)
        \/ DeleteDo(p)

SpecLifecycle == InitLifecycle /\ [][NextLifecycle]_vars

(***************************************************************************)
(* SpecTransitions: the same request under the status transitions alone.   *)
(***************************************************************************)
NextTransitions ==
    \/ \E p \in FreeProcs, org \in {"orgA"}, rid \in DOMAIN rmas, userId \in Users :
        \/ Approve(p, org, rid, userId)
        \/ \E reason \in RejectReasons : Reject(p, org, rid, userId, reason)
        \/ Receive(p, org, rid, userId)
        \/ Inspect(p, org, rid, userId, "confirmed_defective")
        \/ \E type \in {"refund", "replacement"} :
               Resolve(p, org, rid, type, 0, NoNumber)
        \/ Close(p, org, rid, userId)
    \/ \E p \in Procs : RmaSave(p)

SpecTransitions == InitLifecycle /\ [][NextTransitions]_vars

(***************************************************************************)
(* SpecSweep: the ledger with one request at a time, for what eventually   *)
(* happens.  Time passes; nothing in the repository calls expireCredits    *)
(* (no job, timer or route), so no fairness is assumed of it.              *)
(***************************************************************************)
CreditIds == 1..MaxResolves

SpecSweep == InitLedger /\ [][NextLedgerSeq]_vars /\ WF_vars(Tick)

(***************************************************************************)
(* SpecBalance: the balance query over collections of two credits of two   *)
(* customers and two organizations, in every status, with and without an   *)
(* expiration date, at every time.                                         *)
(***************************************************************************)
BalanceCustomers == {"cust1", "cust2"}

\* Two stored credits of originalAmount MaxAmount, each in a state that issue,
\* apply, void and expireCredits leave a credit in: the balance goes with the
\* status, and an expired credit has an expiration date that is not ahead.
InitBalance ==
    /\ now \in 1..MaxTime
    /\ LET BalancesOf(status) ==
               CASE status = "active" -> {MaxAmount}
                 [] status = "partially_used" -> 1..(MaxAmount - 1)
                 [] status = "fully_used" -> {0}
                 [] status = "expired" -> 1..MaxAmount
                 [] status = "voided" -> {0}
           StoredCredit(i, org, customerId, status, balance, expirationDate) ==
               [NewStoreCredit(org, MkNumber("CM", 1, i), [customerId |-> customerId],
                               i, MaxAmount, 0, "u1", 1)
                   EXCEPT !.status = status,
                          !.remainingBalance = balance,
                          !.expirationDate = expirationDate,
                          !.voidedBy = IF status = "voided" THEN "u1" ELSE "",
                          !.voidedAt = IF status = "voided" THEN 1 ELSE NoDate,
                          !.voidReason = IF status = "voided" THEN "mistake" ELSE ""]
           StoredCredits(i) ==
               {c \in {StoredCredit(i, org, customerId, status, balance, expirationDate) :
                          org \in Orgs, customerId \in BalanceCustomers,
                          status \in CreditStatuses, balance \in 0..MaxAmount,
                          expirationDate \in {NoDate, 2}} :
                   /\ c.remainingBalance \in BalancesOf(c.status)
                   /\ c.status = "expired"
                      => (c.expirationDate # NoDate /\ c.expirationDate <= now)}
       IN  \E c1 \in StoredCredits(1), c2 \in StoredCredits(2) : credits = <<c1, c2>>
    /\ procs = [p \in Procs |-> Idle]
    /\ resp = NoResp
    /\ resolvedOk = [i \in RmaIds |-> <<>>]
    /\ rmas = [i \in {} |-> 0]
    /\ nextRid = 1
    /\ assignLog = <<>>

NextBalance ==
    \/ Tick
    \/ \E customerId \in BalanceCustomers, org \in Orgs : CustomerCredits(customerId, org)

SpecBalance == InitBalance /\ [][NextBalance]_vars

(***************************************************************************)
(* SpecDestroy: one inspected request is resolved, destroyed and closed by *)
(* requests that overlap, with the disposal service up or down.            *)
(***************************************************************************)
NextDestroy ==
    \/ Tick
    \/ \E p \in FreeProcs, org \in {"orgA"}, rid \in DOMAIN rmas :
        \/ Resolve(p, org, rid, "replacement", 0, NoNumber)
        \/ \E userId \in Users : Close(p, org, rid, userId)
        \/ \E body \in DestroyBodies, metrcUp \in BOOLEAN :
               Destroy(p, org, rid, body, metrcUp)
    \/ \E p \in Procs : RmaSave(p)

SpecDestroy == InitLedger /\ [][NextDestroy]_vars

(***************************************************************************)
(* SpecTenants: both organizations address the one request of orgA, and    *)
(* the credit issued for it, with every operation, one request at a time.  *)
(***************************************************************************)
NextTenants ==
    \/ /\ \A q \in Procs : procs[q] = Idle
       /\ \E p \in FreeProcs, org \in Orgs, rid \in DOMAIN rmas, userId \in Users :
            \/ Approve(p, org, rid, userId)
            \/ \E reason \in RejectReasons : Reject(p, org, rid, userId, reason)
            \/ Receive(p, org, rid, userId)
            \/ Inspect(p, org, rid, userId, "confirmed_defective")
            \/ Resolve(p, org, rid, "replacement", 0, NoNumber)
            \/ ProcessRefund(p, org, rid, MaxAmount)
            \/ IssueCreditAtomic(org, rid, MaxAmount, NoNumber, 0, userId)
            \/ Close(p, org, rid, userId)
            \/ \E body \in UpdateBodies : Update(p, org, rid, body, userId)
            \/ \E isOwner \in BOOLEAN : DeleteBegin(p, org, rid, isOwner)
            \/ \E body \in DestroyBodies : Destroy(p, org, rid, body, TRUE)
            \/ \E memo \in MemosInUse, amount \in 1..MaxAmount :
                \/ ApplyReject(org, memo, amount)
                \/ ApplyAtomic(org, memo, amount)
    \/ \E p \in Procs :
        \/ RmaSave(p)
        \/ DeleteDo(p)

SpecTenants == InitLifecycle /\ [][NextTenants]_vars

(***************************************************************************)
(* SpecIntake: the life of a request from its creation on, one request at  *)
(* a time.  Either organization creates a request, with or without a       *)
(* related invoice, when none is stored; the request is then edited, taken *)
(* through its transitions, destroyed or deleted by its organization.      *)
(***************************************************************************)
NextIntake ==
    \/ /\ \A q \in Procs : procs[q] = Idle
       /\ \E p \in FreeProcs, org \in Orgs :
            \/ \E body \in CreateBodies : NoneStored /\ CreateBegin(p, org, body)
            \/ \E rid \in DOMAIN rmas, userId \in Users :
                /\ rmas[rid].organizationId = org
                /\ \/ Approve(p, org, rid, userId)
                   \/ \E reason \in RejectReasons : Reject(p, org, rid, userId, reason)
                   \/ Receive(p, org, rid, userId)
                   \/ Inspect(p, org, rid, userId, "confirmed_defective")
                   \/ Resolve(p, org, rid, "replacement", 0, NoNumber)
                   \/ \E amount \in {-1, 0} :
                          IssueCreditBegin(p, org, rid, amount, NoNumber, 0, userId)
                   \/ Close(p, org, rid, userId)
                   \/ \E body \in UpdateBodies : Update(p, org, rid, body, userId)
                   \/ DeleteBegin(p, org, rid, TRUE)
                   \/ \E body \in DestroyBodies : Destroy(p, org, rid, body, TRUE)
    \/ \E p \in Procs :
        \/ CreateInsert(p)
        \/ RmaSave(p)
        \/ DeleteDo(p)

SpecIntake == Init /\ [][NextIntake]_vars

(***************************************************************************)
(* Properties of the store-credit ledger.                                  *)
(***************************************************************************)
AmountUsed(u) == u.amountUsed
UsedTotal(c) == SumSeq([k \in DOMAIN c.usageHistory |-> AmountUsed(c.usageHistory[k])])

\* C1, as stated: for every store credit, in every state reached by issue,
\* apply, void and expireCredits run one after another, remainingBalance plus
\* the amounts of its usage history equals originalAmount.
C1_BalanceLedgerAll ==
    \A i \in DOMAIN credits :
        credits[i].remainingBalance + UsedTotal(credits[i]) = credits[i].originalAmount

\* C1, amended: the same for every store credit that is not voided (void
\* zeroes the balance and adds no usage record).
C1_BalanceLedger ==
    \A i \in DOMAIN credits :
        credits[i].status # "voided" =>
            credits[i].remainingBalance + UsedTotal(credits[i]) = credits[i].originalAmount

\* A credit that has been applied in part.
C1_Witness ==
    \E i \in DOMAIN credits :
        /\ credits[i].status = "partially_used"
        /\ Len(credits[i].usageHistory) >= 1
        /\ credits[i].remainingBalance > 0

\* C2: applies that overlap between their load and their save do not overdraw
\* a credit: the amounts of its usage records never exceed originalAmount, and
\* the stored balance accounts for every one of them (no lost update).
C2_NoOverdraft ==
    \A i \in DOMAIN credits :
        credits[i].status # "voided" =>
            /\ UsedTotal(credits[i]) <= credits[i].originalAmount
            /\ credits[i].remainingBalance =
                   credits[i].originalAmount - UsedTotal(credits[i])

\* C3: the stored remainingBalance is never negative, also after applies that
\* overlap between their load and their save.
C3_BalanceNonNegative ==
    \A i \in DOMAIN credits : credits[i].remainingBalance >= 0

\* Two overlapping applies have both been saved: more was used than issued.
C3_Witness ==
    \E i \in DOMAIN credits :
        /\ Len(credits[i].usageHistory) >= 2
        /\ UsedTotal(credits[i]) > credits[i].originalAmount
        /\ credits[i].remainingBalance >= 0

\* C18: a successful apply of an amount with 0 < amount <= remainingBalance
\* on an available credit lowers remainingBalance by the amount, appends one
\* usage record with that amount and the new balance, and sets the status to
\* fully_used when the new balance is 0 and to partially_used otherwise.
C18_ApplyEffect ==
    [][\A org \in Orgs, memo \in MemosInUse, amount \in 1..MaxAmount :
          (ApplyAtomic(org, memo, amount) /\ resp'.code = 200)
          => LET cid == FindCredit(credits, org, memo)
                 c == credits[cid]
                 d == credits'[cid]
             IN  /\ d.remainingBalance = c.remainingBalance - amount
                 /\ d.usageHistory = Append(c.usageHistory,
                        [amountUsed |-> amount, remainingAfterUse |-> d.remainingBalance])
                 /\ d.status = IF d.remainingBalance = 0 THEN "fully_used"
                                ELSE "partially_used"]_vars

\* C19: apply is refused, with the credit left as it is, whenever the amount
\* exceeds remainingBalance, the status is expired, voided or fully_used, or
\* the time is past the expiration date.
C19_ApplyRefused ==
    [][LET ApplyMustFail(c, amount, t) ==
               \/ amount > c.remainingBalance
               \/ c.status \in {"expired", "voided", "fully_used"}
               \/ (c.expirationDate # NoDate /\ t > c.expirationDate)
       IN
       /\ \A org \in Orgs, memo \in MemosInUse, amount \in ApplyAmounts :
             LET cid == FindCredit(credits, org, memo)
             IN  (cid # NoId /\ ApplyMustFail(credits[cid], amount, now))
                 => /\ ApplyRouteCode(credits, org, memo, amount, now) \in {400, 500}
                    /\ ~ApplyAtomic(org, memo, amount)
       /\ (resp'.op = "apply" /\ resp'.code # 200) => credits' = credits]_vars

\* An apply has been refused on a credit that is still active in status but
\* past its expiration date.
C19_Witness ==
    /\ resp = [op |-> "apply", code |-> 400]
    /\ \E i \in DOMAIN credits :
           /\ credits[i].status = "active"
           /\ credits[i].expirationDate # NoDate
           /\ now > credits[i].expirationDate

\* C20: void on a fully_used credit fails and leaves the credit as it is.
C20_VoidFullyUsed ==
    [][\A cid \in DOMAIN credits :
          credits[cid].status = "fully_used"
          => /\ \A userId \in Users, reason \in VoidReasons : ~VoidAtomic(cid, userId, reason)
             /\ resp'.op = "void" => (resp'.code = 500 /\ credits' = credits)]_vars

\* A void has been refused on a fully_used credit.
C20_Witness ==
    /\ resp = [op |-> "void", code |-> 500]
    /\ \E i \in DOMAIN credits :
           /\ credits[i].status = "fully_used"
           /\ credits[i].voidedBy = ""
           /\ Len(credits[i].usageHistory) >= 1

\* C21: a successful void sets remainingBalance to 0 and status to voided and
\* records operator, reason and time; and once an entry is voided, no apply,
\* void or expireCredits changes its status, balance, void reason or operator.
C21_VoidTerminal ==
    [][\A cid \in DOMAIN credits :
          /\ \A userId \in Users, reason \in VoidReasons :
                 VoidAtomic(cid, userId, reason)
                 => /\ credits'[cid].remainingBalance = 0
                    /\ credits'[cid].status = "voided"
                    /\ credits'[cid].voidedBy = userId
                    /\ credits'[cid].voidReason = reason
                    /\ credits'[cid].voidedAt = now
          /\ credits[cid].status = "voided"
             => /\ credits'[cid].status = "voided"
                /\ credits'[cid].remainingBalance = credits[cid].remainingBalance
                /\ credits'[cid].voidReason = credits[cid].voidReason
                /\ credits'[cid].voidedBy = credits[cid].voidedBy]_vars

\* C22: remainingBalance never rises and never exceeds originalAmount,
\* whatever amount an accepted apply was given.
C22_BalanceNeverRises ==
    [][\A cid \in DOMAIN credits :
          /\ credits'[cid].remainingBalance <= credits[cid].remainingBalance
          /\ credits'[cid].remainingBalance <= credits'[cid].originalAmount]_vars

\* C23: the status agrees with the balance: active means the balance is
\* originalAmount, partially_used that it lies strictly between 0 and
\* originalAmount, fully_used that it is 0.
C23_StatusAgrees ==
    \A cid \in DOMAIN credits :
        LET c == credits[cid]
        IN  /\ c.status = "active" => c.remainingBalance = c.originalAmount
            /\ c.status = "partially_used"
               => (0 < c.remainingBalance /\ c.remainingBalance < c.originalAmount)
            /\ c.status = "fully_used" => c.remainingBalance = 0

\* C24: the usage history is append-only: every step leaves the records a
\* credit has, and their order, as they are, and only a successful apply adds
\* a record, one, at the end.
C24_HistoryAppendOnly ==
    [][\A cid \in DOMAIN credits :
          LET h == credits[cid].usageHistory
              g == credits'[cid].usageHistory
          IN  \/ g = h
              \/ /\ Len(g) = Len(h) + 1
                 /\ SubSeq(g, 1, Len(h)) = h
                 /\ resp' = [op |-> "apply", code |-> 200]]_vars

\* Two applies have been saved on one credit.
C24_Witness ==
    /\ resp = [op |-> "apply", code |-> 200]
    /\ \E i \in DOMAIN credits : Len(credits[i].usageHistory) >= 2

\* C25: expireCredits sets to expired exactly the entries in status active or
\* partially_used whose expiration is <= now, leaves everything else of every
\* entry as it is, and run again at the same time changes nothing.
C25_SweepExact ==
    [][LET DueAt(c, t) == /\ c.status \in {"active", "partially_used"}
                          /\ c.expirationDate # NoDate
                          /\ c.expirationDate <= t
       IN
       ExpireCredits
       => /\ DOMAIN credits' = DOMAIN credits
          /\ \A cid \in DOMAIN credits :
                 credits'[cid] = IF DueAt(credits[cid], now)
                                 THEN [credits[cid] EXCEPT !.status = "expired"]
                                 ELSE credits[cid]
          /\ \A cid \in DOMAIN credits' : ~DueAt(credits'[cid], now)]_vars

\* The sweep has expired a used credit at the very time of its expiration,
\* with its balance and usage record kept.
C25_Witness ==
    /\ resp = [op |-> "expire", code |-> 200]
    /\ \E i \in DOMAIN credits :
           /\ credits[i].status = "expired"
           /\ credits[i].expirationDate = now
           /\ credits[i].remainingBalance > 0
           /\ Len(credits[i].usageHistory) >= 1

\* C26: every entry in status active or partially_used whose expiration has
\* passed eventually becomes expired (or leaves these two statuses by a void
\* or a full use before the sweep reaches it).
C26_EventuallyExpired ==
    \A cid \in CreditIds :
        (/\ cid \in DOMAIN credits
         /\ credits[cid].status \in {"active", "partially_used"}
         /\ IsExpired(credits[cid], now))
        ~> (/\ cid \in DOMAIN credits
            /\ credits[cid].status \notin {"active", "partially_used"})

\* C27: the customer's balance is the sum of remainingBalance over exactly
\* the entries of that customer and that tenant in status active or
\* partially_used with no expiration or one in the future; the entries found
\* are these, and those of other tenants or customers never contribute.
C27_CustomerBalance ==
    [][\A customerId \in BalanceCustomers, org \in Orgs :
          CustomerCredits(customerId, org)
          => LET S == {i \in DOMAIN credits :
                          /\ credits[i].customerId = customerId
                          /\ credits[i].organizationId = org
                          /\ credits[i].status \in {"active", "partially_used"}
                          /\ \/ credits[i].expirationDate = NoDate
                             \/ credits[i].expirationDate > now}
             IN  /\ resp'.total = SumOver([i \in DOMAIN credits |->
                                               credits[i].remainingBalance], S)
                 /\ resp'.activeCredits = Cardinality(S)
                 /\ Range(resp'.found) = {credits[i] : i \in S}]_vars

\* A balance has been answered that counts one of two credits of the
\* customer: the other belongs to another tenant and would count there.
C27_Witness ==
    /\ resp.op = "balance"
    /\ resp.total > 0
    /\ resp.activeCredits = 1
    /\ \E i, j \in DOMAIN credits :
           /\ credits[i].customerId = resp.customerId
           /\ credits[j].customerId = resp.customerId
           /\ credits[i].organizationId = resp.org
           /\ credits[j].organizationId # resp.org
           /\ credits[j].status = "active"
           /\ credits[j].expirationDate = NoDate

(***************************************************************************)
(* Properties of resolution.                                               *)
(***************************************************************************)
\* C4: a return request is resolved at most once: of the resolution requests
\* on one RMA (resolve, process-refund, issue-credit), in sequence or
\* overlapping, at most one is answered with success, so it is never resolved
\* with two resolution types.
C4_ResolvedOnce ==
    \A r \in RmaIds :
        /\ Len(resolvedOk[r]) <= 1
        /\ Cardinality(Range(resolvedOk[r])) <= 1

\* C5: at most one store credit is ever created with a given return request
\* as its source, whatever the order and overlap of issue-credit requests.
C5_OneCreditPerRma ==
    \A r \in RmaIds :
        Cardinality({i \in DOMAIN credits : credits[i].sourceReferenceId = r}) <= 1

\* C7: when two issue-credit requests of one organization overlap between
\* the generation of their memo numbers and their saves, the insert of each
\* succeeds, and the two memo numbers are distinct and consecutive.
SequenceOf(number) == ParseInt(number.digits)

Generating(q) == q.op = "issue_credit" /\ q.memoIn = NoNumber

C7_BothIssuesSucceed ==
    [][\A p, q \in Procs :
          ( /\ p # q
            /\ Generating(procs[p]) /\ procs[p].pc = "credit"
            /\ Generating(procs[q]) /\ procs[q].pc \in {"credit", "save"}
            /\ procs[p].org = procs[q].org
            /\ procs'[p] # procs[p] )
          => /\ credits' = Append(credits, procs[p].credit)
             /\ LET a == SequenceOf(procs[p].credit.creditMemoNumber)
                    b == SequenceOf(procs[q].credit.creditMemoNumber)
                IN  a = b + 1 \/ b = a + 1]_vars

\* C17: whenever a request becomes resolved with resolution type
\* store_credit, a store credit is stored that references the request, has
\* originalAmount = remainingBalance = the credited amount, is active, and
\* bears the memo number recorded on the request.
BecomesCredited(r) ==
    /\ r \in DOMAIN rmas /\ r \in DOMAIN rmas'
    /\ rmas'[r].status = "resolved" /\ rmas'[r].resolutionType = "store_credit"
    /\ ~(rmas[r].status = "resolved" /\ rmas[r].resolutionType = "store_credit")

C17_CreditExists ==
    [][\A r \in RmaIds :
          BecomesCredited(r)
          => \E i \in DOMAIN credits' :
                 /\ credits'[i].sourceReferenceId = r
                 /\ credits'[i].originalAmount = rmas'[r].creditAmount
                 /\ credits'[i].remainingBalance = rmas'[r].creditAmount
                 /\ credits'[i].status = "active"
                 /\ credits'[i].creditMemoNumber = rmas'[r].creditMemoNumber]_vars

(***************************************************************************)
(* Properties of numbering.                                                *)
(***************************************************************************)
SameBucket(m, n) == m.prefix = n.prefix /\ m.bucket = n.bucket

\* The position of the insert of RMA r in the history of inserts.
InsertedAt(r) == CHOOSE k \in DOMAIN assignLog : assignLog[k].rid = r

\* C6: the return numbers stored in one organization+month bucket are
\* pairwise distinct and strictly increasing in the order of assignment, also
\* when creations overlap.  The order of assignment is taken either as the
\* order in which the new documents were constructed and numbered (_id) or as
\* the order in which they were inserted: the claim holds if either is
\* increasing.
C6_StoredIncreasing ==
    LET pairs == {xy \in (DOMAIN rmas) \X (DOMAIN rmas) :
                     /\ xy[1] # xy[2]
                     /\ rmas[xy[1]].organizationId = rmas[xy[2]].organizationId
                     /\ SameBucket(rmas[xy[1]].rmaNumber, rmas[xy[2]].rmaNumber)}
        Increasing(xy) == SequenceOf(rmas[xy[1]].rmaNumber) < SequenceOf(rmas[xy[2]].rmaNumber)
    IN  /\ \A xy \in pairs : rmas[xy[1]].rmaNumber # rmas[xy[2]].rmaNumber
        /\ \/ \A xy \in pairs : xy[1] < xy[2] => Increasing(xy)
           \/ \A xy \in pairs : InsertedAt(xy[1]) < InsertedAt(xy[2]) => Increasing(xy)

\* C8: over the whole history of creations and deletions, every number
\* assigned in an organization+month bucket is greater than all numbers
\* assigned in it before: no number is used again.
C8_NeverReused ==
    \A j, k \in DOMAIN assignLog :
        ( /\ j < k
          /\ assignLog[j].org = assignLog[k].org
          /\ SameBucket(assignLog[j].number, assignLog[k].number) )
        => SequenceOf(assignLog[j].number) < SequenceOf(assignLog[k].number)

\* C9: numbering is per organization: the first return request an
\* organization creates in a month is inserted, with sequence 0001, whatever
\* numbers other organizations hold.
FirstInBucket(q) ==
    ~\E k \in DOMAIN assignLog :
        /\ assignLog[k].org = q.org
        /\ SameBucket(assignLog[k].number, q.doc.rmaNumber)

C9_FirstIsStored ==
    [][\A p \in Procs :
          ( /\ procs[p].op = "create"
            /\ procs'[p] = Idle
            /\ FirstInBucket(procs[p]) )
          => /\ rmas' = (procs[p].rid :> procs[p].doc) @@ rmas
             /\ SequenceOf(procs[p].doc.rmaNumber) = 1]_vars

(***************************************************************************)
(* Properties of the transitions.                                          *)
(***************************************************************************)
\* The request of slot p is accepted in this step: its handler has found the
\* document, passed its checks and goes on to write.
Accepted(p, op) == procs[p] = Idle /\ procs'[p] # Idle /\ procs'[p].op = op

\* The request of slot p writes the stored document in this step.
Written(p, op) == procs[p] # Idle /\ procs[p].op = op /\ procs'[p] = Idle /\ rmas' # rmas

\* C11: reject is accepted only on a request in pending_approval, and writes
\* only a request it found in pending_approval; on any other status it
\* leaves the request as it is.
C11_RejectOnlyPending ==
    [][\A p \in Procs :
          /\ Accepted(p, "reject") => rmas[procs'[p].rid].status = "pending_approval"
          /\ Written(p, "reject") => procs[p].base.status = "pending_approval"]_vars

GuardedOps == {"approve", "receive", "inspect", "resolve", "close"}

\* The legal source statuses of the guarded transitions.
LegalSource(op) ==
    CASE op = "approve" -> {"pending_approval"}
      [] op = "receive" -> {"approved"}
      [] op = "inspect" -> {"received", "inspecting"}
      [] op = "resolve" -> {"inspected"}
      [] op = "close" -> {"resolved"}

\* C12: approve, markReceived, completeInspection, resolve and close are
\* accepted only on a request in their legal source status and write only a
\* request they found in it; the step that answers the invalid transition
\* (400) leaves every stored request and every request in flight unchanged.
C12_GuardedTransitions ==
    [][/\ \A p \in Procs, op \in GuardedOps :
             /\ Accepted(p, op) => rmas[procs'[p].rid].status \in LegalSource(op)
             /\ Written(p, op) => procs[p].base.status \in LegalSource(op)
       /\ (resp'.op \in GuardedOps /\ resp'.code = 400)
             => (rmas' = rmas /\ procs' = procs /\ credits' = credits)]_vars

\* completeInspection has been refused on a request still in pending_approval.
C12_Witness ==
    /\ resp = [op |-> "inspect", code |-> 400]
    /\ 1 \in DOMAIN rmas
    /\ rmas[1].status = "pending_approval"

ProtectedPaths == {"status", "items", "returnReason", "customerId", "customerName",
                   "resolutionType", "refundAmount", "creditAmount", "creditMemoNumber"}

\* C13: a request that an operation finds in a terminal status (closed,
\* rejected) is not changed by it in status, items, reason, customer fields
\* or resolution fields.
C13_TerminalImmutable ==
    [][\A p \in Procs, op \in SaveOps :
          (Written(p, op) /\ procs[p].base.status \in {"closed", "rejected"})
          => \A f \in ProtectedPaths : rmas'[procs[p].rid][f] = procs[p].base[f]]_vars

\* C14: a deletion is accepted only on a request that is not resolved or
\* closed, and from an operator who is not the owner only on a request in
\* pending_approval; a resolved or closed request is never removed.
C14_CancelPreResolution ==
    [][/\ \A p \in Procs :
             Accepted(p, "delete")
             => /\ rmas[procs'[p].rid].status \notin {"resolved", "closed"}
                /\ ~procs'[p].isOwner => rmas[procs'[p].rid].status = "pending_approval"
       /\ \A r \in DOMAIN rmas :
             rmas[r].status \in {"resolved", "closed"} => r \in DOMAIN rmas']_vars

\* C15: an update that changes the items, the reason or the customer fields
\* is written only on a request it found in pending_approval or approved.
C15_EditOnlyEarly ==
    [][\A p \in Procs :
          ( /\ Written(p, "update")
            /\ \/ procs[p].itemsSet
               \/ procs[p].doc.returnReason # procs[p].base.returnReason
               \/ procs[p].doc.customerName # procs[p].base.customerName
               \/ procs[p].doc.customerId # procs[p].base.customerId )
          => procs[p].base.status \in {"pending_approval", "approved"}]_vars

\* C36: the three checks of the expiration agree at every time, also at
\* the time of the expiration itself: a credit on which an apply of a valid
\* amount has succeeded is, at that time, counted by the customer's balance
\* and would not be set to expired by the sweep; and a credit that the
\* sweep sets to expired is, at that time, refused by apply.
C36_ExpirationChecksAgree ==
    [][/\ \A org \in Orgs, memo \in MemosInUse, amount \in 1..MaxAmount :
              (ApplyAtomic(org, memo, amount) /\ resp'.code = 200)
              => LET cid == FindCredit(credits, org, memo)
                     c == credits[cid]
                     found == GetCustomerBalance(credits, c.customerId,
                                                 c.organizationId, now).credits
                 IN  /\ \E k \in DOMAIN found : found[k] = c
                     /\ ExpireCreditsDb(credits, now)[cid].status # "expired"
       /\ ExpireCredits
          => \A i \in DOMAIN credits :
                 (credits[i].status # "expired" /\ credits'[i].status = "expired")
                 => \A amount \in 1..MaxAmount :
                        ApplyCreditThrows(credits[i], amount, now)]_vars

(***************************************************************************)
(* Properties of destruction.                                              *)
(***************************************************************************)
\* C28: when the disposal service cannot be reached during destroy on a
\* resolved request, destroy still answers with success, and the request is
\* stored with the manifest number, the destroyed total and the witness,
\* with metrcReported false and with requiresManualReporting true together
\* with the error.
C28_DestroyOffline ==
    [][\A p \in Procs :
          (/\ procs[p] # Idle
           /\ procs[p].op = "destroy"
           /\ ~procs[p].metrcUp
           /\ procs[p].base.status = "resolved"
           /\ procs'[p] = Idle)
          => /\ resp' = [op |-> "destroy", code |-> 200]
             /\ LET d == rmas'[procs[p].rid]
                IN  /\ {"wasteManifestNumber", "totalWeightDestroyed",
                         "destructionWitnessName", "metrcReported",
                         "requiresManualReporting", "metrcError"} \subseteq DOMAIN d
                    /\ d.wasteManifestNumber = procs[p].doc.wasteManifestNumber
                    /\ d.destructionWitnessName = "Sam"
                    /\ d.metrcReported = FALSE
                    /\ d.requiresManualReporting = TRUE
                    /\ d.metrcError # ""]_vars

\* C29: destroy is accepted only on a request whose status is resolved, a
\* refused destroy changes nothing, and the save of an accepted destroy
\* leaves the status as it is.
C29_DestroyOnlyResolved ==
    [][/\ \A p \in Procs :
             /\ Accepted(p, "destroy") => rmas[procs'[p].rid].status = "resolved"
             /\ (procs[p] # Idle /\ procs[p].op = "destroy" /\ procs'[p] = Idle)
                => /\ procs[p].base.status = "resolved"
                   /\ rmas'[procs[p].rid].status = rmas[procs[p].rid].status
       /\ (resp'.op = "destroy" /\ resp'.code # 200) => rmas' = rmas]_vars

\* A destroy has been answered with success on a resolved request.
C29_Witness ==
    /\ resp = [op |-> "destroy", code |-> 200]
    /\ 1 \in DOMAIN rmas
    /\ rmas[1].status = "resolved"

\* C35: destroy stores the local destruction record before it reports to
\* the disposal service and writes the outcome of the report afterwards:
\* whenever a destroy is past its reporting step, the outcome being known
\* to it, the stored request carries the manifest number, the method and
\* the witness.
C35_LocalRecordFirst ==
    \A p \in Procs :
        (/\ procs[p] # Idle
         /\ procs[p].op = "destroy"
         /\ "metrcReported" \in DOMAIN procs[p].doc)
        => /\ procs[p].rid \in DOMAIN rmas
           /\ {"wasteManifestNumber", "destructionMethod", "destructionWitnessName"}
                  \subseteq DOMAIN rmas[procs[p].rid]

\* C37: a return request is destroyed at most once: after a destroy has
\* been answered with success no further destroy is accepted, so that
\* nothing is reported again and no new manifest number is assigned.
C37_DestroyOnce ==
    [][\A p \in Procs :
          ~(/\ resp = [op |-> "destroy", code |-> 200]
            /\ Accepted(p, "destroy")
            /\ "wasteManifestNumber" \in DOMAIN procs'[p].doc)]_vars

(***************************************************************************)
(* Properties of tenancy.                                                  *)
(***************************************************************************)
\* C30: every operation that addresses a return request by its id, or a
\* credit by its memo number, for an organization that does not own it is
\* answered as for an id, or a memo number, that does not exist: not found,
\* or the same refusal of the body that comes before the lookup; and an
\* answer of not found leaves requests and credits as they are.
C30_TenantIsolation ==
    [][LET none == MaxCreates + 1
           fresh == MkNumber("CM", 0, 0)
           Same(foreign, absent) == foreign = absent /\ foreign \in {400, 404}
       IN
       /\ \A org \in Orgs, rid \in DOMAIN rmas :
             rmas[rid].organizationId # org
             => /\ ApproveCode(org, rid) = 404
                /\ ReceiveCode(org, rid) = 404
                /\ CloseCode(org, rid) = 404
                /\ UpdateCode(org, rid) = 404
                /\ \A isOwner \in BOOLEAN : DeleteCode(org, rid, isOwner) = 404
                /\ \A reason \in RejectReasons :
                       Same(RejectCode(org, rid, reason), RejectCode(org, none, reason))
                /\ \A result \in {"", "confirmed_defective"} :
                       Same(InspectCode(org, rid, result), InspectCode(org, none, result))
                /\ \A type \in ResolutionTypes \cup {""} :
                       Same(ResolveCode(org, rid, type), ResolveCode(org, none, type))
                /\ \A amount \in Amounts :
                       /\ Same(ProcessRefundCode(org, rid, amount),
                               ProcessRefundCode(org, none, amount))
                       /\ Same(IssueCreditCode(org, rid, amount),
                               IssueCreditCode(org, none, amount))
                /\ \A body \in DestroyBodies :
                       Same(DestroyCode(org, rid, body), DestroyCode(org, none, body))
       /\ \A org \in Orgs, cid \in DOMAIN credits, amount \in ApplyAmounts :
             credits[cid].organizationId # org
             => Same(ApplyRouteCode(credits, org, credits[cid].creditMemoNumber,
                                    amount, now),
                     ApplyRouteCode(credits, org, fresh, amount, now))
       /\ resp'.code = 404 => (rmas' = rmas /\ credits' = credits /\ procs' = procs)]_vars

\* orgB's apply on the memo number of orgA's credit has been answered with
\* not found, the credit being available.
C30_Witness ==
    /\ resp = [op |-> "apply", code |-> 404]
    /\ \E i \in DOMAIN credits :
           /\ credits[i].organizationId = "orgA"
           /\ credits[i].status = "active"
    /\ 1 \in DOMAIN rmas
    /\ rmas[1].organizationId = "orgA"

(***************************************************************************)
(* Properties of the stored request.                                       *)
(***************************************************************************)
\* C33: the number of a return request is assigned once, when the request
\* is first stored, and no later operation changes it: a request enters
\* the collection with a number, and a request that stays in the
\* collection keeps the number it has.
C33_NumberAssignedOnce ==
    [][/\ \A r \in DOMAIN rmas' \ DOMAIN rmas : rmas'[r].rmaNumber # NoNumber
       /\ \A r \in DOMAIN rmas \cap DOMAIN rmas' :
              rmas'[r].rmaNumber = rmas[r].rmaNumber]_vars

\* A request created by POST / has gone through its transitions up to
\* closed and carries the number it was inserted with.
C33_Witness ==
    \E r \in DOMAIN rmas :
        /\ rmas[r].status = "closed"
        /\ \E k \in DOMAIN assignLog :
               /\ assignLog[k].rid = r
               /\ assignLog[k].number = rmas[r].rmaNumber

\* C38: the status of a stored return request is always one of
\* pending_approval, approved, rejected, received, inspected, resolved and
\* closed; the other declared statuses are never reached.
C38_SevenStatuses ==
    \A r \in DOMAIN rmas :
        rmas[r].status \in {"pending_approval", "approved", "rejected", "received",
                            "inspected", "resolved", "closed"}

\* A cancellation has removed the stored request: the delete has been
\* answered with success and the collection is empty.
C38_Witness ==
    /\ resp = [op |-> "delete", code |-> 200]
    /\ DOMAIN rmas = {}

(***************************************************************************)
(* Properties of validation.                                               *)
(***************************************************************************)
\* C32: a request that fails validation is refused before anything is
\* changed: reject with an empty reason, destroy without a method or a
\* witness, issue of a credit of an amount of zero or less, and create
\* without customer name, items or reason are each answered with 400 and
\* leave every return request, every credit and every request in progress
\* as they are; nothing is created.
C32_ValidationFirst ==
    [][LET Refused(op) ==
               /\ resp' = [op |-> op, code |-> 400]
               /\ rmas' = rmas
               /\ credits' = credits
               /\ nextRid' = nextRid
               /\ procs' = procs
       IN  \A p \in Procs, org \in Orgs :
               /\ \A body \in CreateBodies :
                      (/\ \/ body.customerName = ""
                          \/ body.items = <<>>
                          \/ body.returnReason = ""
                       /\ CreateBegin(p, org, body))
                      => Refused("create")
               /\ \A rid \in DOMAIN rmas, userId \in Users :
                      /\ Reject(p, org, rid, userId, "") => Refused("reject")
                      /\ \A body \in DestroyBodies, metrcUp \in BOOLEAN :
                             (/\ \/ body.destructionMethod = ""
                                 \/ body.destructionWitnessName = ""
                              /\ Destroy(p, org, rid, body, metrcUp))
                             => Refused("destroy")
                      /\ \A amount \in {-1, 0} :
                             IssueCreditBegin(p, org, rid, amount, NoNumber, 0, userId)
                             => Refused("issue_credit")]_vars

\* A reject without a reason has been refused, the request being pending.
C32_Witness ==
    /\ resp = [op |-> "reject", code |-> 400]
    /\ \E r \in DOMAIN rmas : rmas[r].status = "pending_approval"

(***************************************************************************)
(* Properties of the compliance snapshot.                                  *)
(***************************************************************************)
\* C16: the compliance fields of a return line are write-once: a line of a
\* stored request that carries a batch id keeps that batch id for as long as
\* the line is there (same place, same product).
C16_SnapshotWriteOnce ==
    [][\A r \in DOMAIN rmas \cap DOMAIN rmas' :
          \A k \in DOMAIN rmas[r].items \cap DOMAIN rmas'[r].items :
              ( /\ rmas[r].items[k].batchNumber # ""
                /\ rmas'[r].items[k].productId = rmas[r].items[k].productId )
              => rmas'[r].items[k].batchNumber = rmas[r].items[k].batchNumber]_vars

\* C31: creating a return with a sale reference copies compliance data only
\* from a sale owned by the calling organization: a line of a stored request
\* that carries a batch id carries the batch id of a line, of the same
\* product, of an invoice of the request's own organization.
C31_SaleOfCallingTenant ==
    \A r \in DOMAIN rmas :
        \A k \in DOMAIN rmas[r].items :
            rmas[r].items[k].batchNumber # ""
            => \E i \in DOMAIN Invoices :
                   /\ Invoices[i].organizationId = rmas[r].organizationId
                   /\ \E m \in DOMAIN Invoices[i].items :
                          /\ Invoices[i].items[m].productId = rmas[r].items[k].productId
                          /\ Invoices[i].items[m].batchNumber = rmas[r].items[k].batchNumber

\* C34: a failure of the extraction for one line of a new return is absorbed
\* for that line alone: the return is created, every other line that
\* matches a line of the related invoice carries the batch id of that
\* line, and the failed line carries a placeholder, not an empty value.
C34_AbsorbedPerItem ==
    [][\A p \in Procs :
          (/\ procs[p] # Idle
           /\ procs[p].op = "create"
           /\ procs'[p] = Idle
           /\ procs[p].doc.relatedInvoiceId \in DOMAIN Invoices)
          => LET invoice == Invoices[procs[p].doc.relatedInvoiceId]
                 Fails(item) ==
                     \E k \in DOMAIN invoice.items :
                         /\ ~invoice.items[k].hasId
                         /\ \A m \in 1..(k - 1) :
                                invoice.items[m].productId # item.productId
                 Carries(item) ==
                     \E m \in DOMAIN invoice.items :
                         /\ invoice.items[m].hasId
                         /\ invoice.items[m].productId = item.productId
                         /\ invoice.items[m].batchNumber = item.batchNumber
             IN  /\ resp' = [op |-> "create", code |-> 201]
                 /\ procs[p].rid \in DOMAIN rmas'
                 /\ LET items == rmas'[procs[p].rid].items
                    IN  \A k \in DOMAIN items :
                            IF Fails(items[k])
                            THEN items[k].batchNumber # ""
                            ELSE (\E m \in DOMAIN invoice.items :
                                      invoice.items[m].productId = items[k].productId)
                                 => Carries(items[k])]_vars

(***************************************************************************)
(* Properties of the total value.                                          *)
(***************************************************************************)
\* C10: after every successful create or update, also one that replaces the
\* items by an empty list, the stored totalValue is the sum of the stored
\* items' line values.
C10_TotalIsSum ==
    \A r \in DOMAIN rmas : rmas[r].totalValue = ItemsTotal(rmas[r].items)

====
